---------------------------- MODULE Spec2Model ----------------------------
(***************************************************************************)
(* Model of the machine-api-operator reconciliation core                   *)
(* (pkg/operator/operator.go): the rate-limited work queue that carries    *)
(* the single reconciliation key, the worker pull-loops started by Run,    *)
(* the six-stage sync pipeline, handleErr, the cache-sync wait, the        *)
(* bootstrap poll, config resolution (mcFromClusterConfig) and the delays  *)
(* of the queue's rate limiter.                                            *)
(*                                                                         *)
(* The work queue is client-go's workqueue (NewNamedRateLimitingQueue over *)
(* DefaultControllerRateLimiter); its operations are modelled at the       *)
(* places operator.go calls them, as functions from a queue value to the   *)
(* next queue value.                                                       *)
(***************************************************************************)
EXTENDS Integers, Sequences, FiniteSets, TLC

(* ------------------------------ bounds -------------------------------- *)

\* number of pull-loops Run is asked to start (its `workers` argument)
NumWorkers == 2

\* number of poll ticks that fit in machineRolloutTimeout
MaxPollTicks == 1

\* burst of the rate limiter's overall bucket (100 in client-go, scaled down)
BucketBurst == 2

\* the most tokens reserved ahead of the bucket's refill
BucketDebt == 2

(* ------------------------- program constants -------------------------- *)

maxRetries == 15

namespace == "openshift-machine-api"
name == "machine-api-operator"

\* fmt.Sprintf("%s/%s", optr.namespace, optr.name)
workQueueKey == namespace \o "/" \o name

\* the informers New registers eventHandler on
Informers ==
    { "machineSet", "configMap", "serviceAccount", "crd", "deploy",
      "clusterRole", "clusterRoleBinding" }

\* the three callbacks of cache.ResourceEventHandlerFuncs
EventKinds == { "add", "update", "delete" }

\* the informers whose cache state is tracked: deploy, whose HasSynced New
\* stores as deployListerSynced, and machineSet (machineSetSynced), which
\* stands for the informers New registers a handler on and Run never asks
ListerSynced == { "machineSet", "deploy" }

\* the InformerSynced functions Run hands to cache.WaitForCacheSync
WaitedSynced == { "deploy" }

Workers == 1 .. NumWorkers

\* the nil item Get returns together with shutdown = true
NoItem == "<nil>"

\* stages of sync, in program order
Stages == 1 .. 6

\* stages whose failure branch calls glog.Fatalf before `return err`
FatalStages == { 2, 3, 4, 5 }

\* error values: 0 is nil, i is the error returned by stage i
NilErr == 0

VARIABLES
    queue,        \* optr.queue: [queue, dirty, processing, shuttingDown, failures, waiting]
    hasSynced,    \* the informers of ListerSynced whose HasSynced() reports true
    stopCh,       \* TRUE once stopCh is closed
    runPc,        \* position of Run
    waitResult,   \* what cache.WaitForCacheSync returned: "none" (not yet), "true", "false"
    wpc,          \* position of each wait.Until(optr.worker, ...) goroutine
    wkey,         \* the key a worker holds between Get and Done
    wtrace,       \* stages run in the worker's current sync, with their outcome
    werr,         \* err in processNextWorkItem: what the worker's sync returned
    handled,      \* the handleErr call made in the processNextWorkItem now ending
    streak,       \* failed syncs handled since the last success or drop
    notified,     \* notifications accepted since a Get last returned the key
    lateSyncs,    \* sync runs started after queue.ShutDown
    bootPc,       \* position of the bootstrap goroutine
    ticks,        \* calls of the poll condition made by wait.Poll
    calls,        \* syncCluster and syncMachineSets calls of the poll: made, and succeeded
    exited,       \* how glog.Fatalf has ended the process, if it has
    cm,           \* the config map mcFromClusterConfig is given
    resolved,     \* what mcFromClusterConfig returned for cm
    tokens,       \* tokens of the rate limiter's overall bucket
    delay         \* the delay the last AddRateLimited computed: [ms, exp, bucket]

vars ==
    << queue, hasSynced, stopCh, runPc, waitResult, wpc, wkey, wtrace, werr,
       handled, streak, notified, lateSyncs, bootPc, ticks, calls, exited,
       cm, resolved, tokens, delay >>

\* the input and the result of config resolution, followed in ConfigSpec
configVars == << cm, resolved >>

\* the rate limiter's bucket and the delay it computed, followed in BackoffSpec;
\* Spec leaves the length of a delay open: DelayedAdd may come at any time
limiterVars == << tokens, delay >>


(* ----------------------------- work queue ----------------------------- *)
(* workqueue.Type: queue is the FIFO of pending items, dirty the items     *)
(* that need processing, processing the items handed out by Get and not    *)
(* yet Done.  failures is the per-item counter of the exponential failure  *)
(* rate limiter, waiting the items the delaying queue holds until their    *)
(* delay has passed.                                                       *)

\* workqueue.NewNamedRateLimitingQueue(workqueue.DefaultControllerRateLimiter(), ...)
NewQueue ==
    [ queue |-> <<>>, dirty |-> {}, processing |-> {}, shuttingDown |-> FALSE,
      failures |-> [i \in {} |-> 0], waiting |-> {} ]

\* Add without the check of the processing set: an item in flight is queued
AddIgnoringProcessing(q, item) ==
    IF q.shuttingDown \/ item \in q.dirty
    THEN q
    ELSE [q EXCEPT !.dirty = @ \cup {item}, !.queue = Append(@, item)]

\* Add without the check of the dirty set: every call appends
AddIgnoringDirty(q, item) ==
    IF q.shuttingDown
    THEN q
    ELSE IF item \in q.processing
         THEN [q EXCEPT !.dirty = @ \cup {item}]
         ELSE [q EXCEPT !.dirty = @ \cup {item}, !.queue = Append(@, item)]

\* Add without the check of shuttingDown: a queue shut down still takes items
AddIgnoringShutDown(q, item) ==
    IF item \in q.dirty
    THEN q
    ELSE IF item \in q.processing
         THEN [q EXCEPT !.dirty = @ \cup {item}]
         ELSE [q EXCEPT !.dirty = @ \cup {item}, !.queue = Append(@, item)]

\* queue.Add: dropped when shutting down or already dirty; an item that is
\* being processed is only marked dirty, Done re-queues it
Add(q, item) ==
    IF q.shuttingDown \/ item \in q.dirty
    THEN q
    ELSE IF item \in q.processing
         THEN [q EXCEPT !.dirty = @ \cup {item}]
         ELSE [q EXCEPT !.dirty = @ \cup {item}, !.queue = Append(@, item)]

\* queue.Get blocks while nothing is pending and the queue is not shutting down
GetReady(q) == Len(q.queue) > 0 \/ q.shuttingDown

\* the (item, quit) pair queue.Get returns
GetItem(q) == IF Len(q.queue) = 0 THEN NoItem ELSE Head(q.queue)

GetQuit(q) == Len(q.queue) = 0

\* the queue after queue.Get returned
Get(q) ==
    IF Len(q.queue) = 0
    THEN q
    ELSE [q EXCEPT !.queue = Tail(@),
                   !.processing = @ \cup {Head(q.queue)},
                   !.dirty = @ \ {Head(q.queue)}]

\* Done that never re-queues: an item marked dirty in flight stays dirty
DoneWithoutRequeue(q, item) ==
    [q EXCEPT !.processing = @ \ {item}]

\* queue.Done: the item is no longer processing; if it was marked dirty
\* meanwhile it becomes pending again
Done(q, item) ==
    IF item \in q.dirty
    THEN [q EXCEPT !.processing = @ \ {item}, !.queue = Append(@, item)]
    ELSE [q EXCEPT !.processing = @ \ {item}]

\* queue.NumRequeues: the rate limiter's failure count of the item
NumRequeues(q, item) ==
    IF item \in DOMAIN q.failures THEN q.failures[item] ELSE 0

\* Forget that leaves the failure count as it is
ForgetKeepingCount(q, item) == q

\* queue.Forget: the rate limiter drops the item's failure count
Forget(q, item) ==
    [q EXCEPT !.failures =
        [i \in (DOMAIN q.failures) \ {item} |-> q.failures[i]]]

\* queue.AddRateLimited: When(item) counts one more failure, AddAfter hands
\* the item to the delaying queue unless the queue is shutting down
AddRateLimited(q, item) ==
    LET counted ==
            [q EXCEPT !.failures =
                [i \in (DOMAIN q.failures) \cup {item} |->
                    IF i = item THEN NumRequeues(q, item) + 1 ELSE q.failures[i]]]
    IN  IF q.shuttingDown
        THEN counted
        ELSE [counted EXCEPT !.waiting = @ \cup {item}]

\* the delaying queue's waiting loop: the item's delay has passed
DelayPassed(q, item) ==
    Add([q EXCEPT !.waiting = @ \ {item}], item)

\* queue.ShutDown
ShutDown(q) == [q EXCEPT !.shuttingDown = TRUE]

(* ------------------------------ handleErr ------------------------------ *)

\* handleErr comparing with <= : one retry more before the drop
handleErrOffByOne(q, err, key) ==
    IF err = NilErr
    THEN [ queue |-> Forget(q, key), calls |-> << "Forget" >> ]
    ELSE IF NumRequeues(q, key) <= maxRetries
         THEN [ queue |-> AddRateLimited(q, key), calls |-> << "AddRateLimited" >> ]
         ELSE [ queue |-> Forget(q, key), calls |-> << "HandleError", "Forget" >> ]

\* handleErr whose drop branch forgets the key without reporting the error
handleErrSilentDrop(q, err, key) ==
    IF err = NilErr
    THEN [ queue |-> Forget(q, key), calls |-> << "Forget" >> ]
    ELSE IF NumRequeues(q, key) < maxRetries
         THEN [ queue |-> AddRateLimited(q, key), calls |-> << "AddRateLimited" >> ]
         ELSE [ queue |-> Forget(q, key), calls |-> << "Forget" >> ]

\* handleErr(err, key): the queue it leaves and the calls it makes, in order
handleErr(q, err, key) ==
    IF err = NilErr
    THEN [ queue |-> Forget(q, key), calls |-> << "Forget" >> ]
    ELSE IF NumRequeues(q, key) < maxRetries
         THEN [ queue |-> AddRateLimited(q, key), calls |-> << "AddRateLimited" >> ]
         ELSE [ queue |-> Forget(q, key), calls |-> << "HandleError", "Forget" >> ]

(* -------------------------------- sync --------------------------------- *)

\* what sync does after stage `stage` ended with or without an error:
\* run the next stage, return to processNextWorkItem, or end the process
\* in glog.Fatalf
StageOutcome(stage, ok) ==
    IF ok
    THEN IF stage = 6 THEN "return" ELSE "continue"
    ELSE IF stage \in FatalStages THEN "fatal" ELSE "return"

\* the error sync returns when it returns after `stage`
StageErr(stage, ok) == IF ok THEN NilErr ELSE stage

(* ---------------------------- event handler ---------------------------- *)

\* payloads of a notification (the object, or the old and new object)
Payloads == { "objA", "objB" }

\* an event handler that enqueues the key of the object it is told about
eventHandlerObjectKey(kind, obj) == namespace \o "/" \o obj

\* the key AddFunc, UpdateFunc and DeleteFunc hand to queue.Add
eventHandler(kind, obj) == workQueueKey

(* ------------------------- config resolution --------------------------- *)
(* A config map's Data maps keys to texts.  A text is modelled by what     *)
(* yaml.Unmarshal makes of it: whether it is well-formed YAML, and the      *)
(* fields of render.OperatorConfig it sets.                                 *)

mcKey == "mao-config"

\* the keys a cluster-config-v1 config map may hold
ConfigMapKeys == { mcKey, "install-config" }

\* the texts a key may hold
ConfigTexts ==
    { [ wellFormed |-> FALSE, TargetNamespace |-> "", Provider |-> "" ] }
    \cup
    [ wellFormed : { TRUE },
      TargetNamespace : { "", namespace, "kube-system" },
      Provider : { "aws", "libvirt" } ]

\* the config maps mcFromClusterConfig is tried on
ClusterConfigs ==
    { [ data |-> d ] : d \in UNION { [ ks -> ConfigTexts ] : ks \in SUBSET ConfigMapKeys } }

\* yaml.Unmarshal([]byte(mcData), &operatorConfig): the error, and the
\* OperatorConfig it filled
Unmarshal(text) ==
    IF text.wellFormed
    THEN [ err |-> "",
           config |-> [ TargetNamespace |-> text.TargetNamespace,
                        Provider |-> text.Provider ] ]
    ELSE [ err |-> "yaml: line 1: did not find expected node content",
           config |-> [ TargetNamespace |-> "", Provider |-> "" ] ]

\* mcFromClusterConfig that returns the parsed config as it is
mcFromClusterConfigNoDefault(c) ==
    IF mcKey \notin DOMAIN c.data
    THEN [ config |-> << >>, err |-> mcKey \o " doesn't exist" ]
    ELSE LET u == Unmarshal(c.data[mcKey])
         IN  IF u.err # ""
             THEN [ config |-> << >>,
                    err |-> "failed unmarshalling config file: " \o u.err ]
             ELSE [ config |-> << u.config >>, err |-> "" ]

\* mcFromClusterConfig(cm): the pair it returns; config is << >> for a nil
\* pointer and << c >> for a pointer to c, err is "" for a nil error
mcFromClusterConfig(c) ==
    IF mcKey \notin DOMAIN c.data
    THEN [ config |-> << >>, err |-> mcKey \o " doesn't exist" ]
    ELSE LET u == Unmarshal(c.data[mcKey])
         IN  IF u.err # ""
             THEN [ config |-> << >>,
                    err |-> "failed unmarshalling config file: " \o u.err ]
             ELSE IF u.config.TargetNamespace = ""
                  THEN [ config |-> << [ u.config EXCEPT !.TargetNamespace = namespace ] >>,
                         err |-> "" ]
                  ELSE [ config |-> << u.config >>, err |-> "" ]

(* ---------------------------- rate limiter ----------------------------- *)
(* workqueue.DefaultControllerRateLimiter(): the larger of the delays of    *)
(* the per-item exponential failure limiter (5ms base, 1000s cap) and of    *)
(* the overall token bucket (10 tokens per second, burst BucketBurst).      *)
(* Delays are in milliseconds.                                              *)

baseDelay == 5

maxDelay == 1000000

\* the time in which the bucket gains one token, at 10 tokens per second
TokenInterval == 100

Max(a, b) == IF a >= b THEN a ELSE b

Min(a, b) == IF a <= b THEN a ELSE b

\* an exponential limiter whose first delay is twice the base delay
ExpDelayFromTwice(exp) == Min(baseDelay * 2 ^ (exp + 1), maxDelay)

\* ItemExponentialFailureRateLimiter.When for an item that failed exp times before
ExpDelay(exp) == Min(baseDelay * 2 ^ exp, maxDelay)

\* BucketRateLimiter.When: Reserve takes a token; with tok tokens left before
\* it, the reservation waits for the token it is short of
BucketDelay(tok) == IF tok >= 1 THEN 0 ELSE (1 - tok) * TokenInterval

\* MaxOfRateLimiter.When, with the delay of each of the two limiters
When(exp, tok) ==
    [ ms |-> Max(ExpDelay(exp), BucketDelay(tok)),
      exp |-> ExpDelay(exp),
      bucket |-> BucketDelay(tok) ]

\* no delay computed yet
NoDelay == [ ms |-> 0, exp |-> 0, bucket |-> 0 ]

(* ------------------------------- Init ---------------------------------- *)

NoHandle == [ worker |-> 0, err |-> NilErr, numRequeues |-> 0, nth |-> 0, calls |-> <<>> ]

StreakCap == maxRetries + 2

\* the process is running
Running == [ by |-> "none", at |-> 0, made |-> {} ]

\* the objects the bootstrap poll creates
Milestones == { "cluster", "machineSet" }

\* no creation call made yet
NoCalls == [ m \in Milestones |-> [ made |-> 0, ok |-> 0 ] ]

\* no config map looked at, nothing resolved
NoConfigMap == [ data |-> << >> ]

Unresolved == [ done |-> FALSE ]

Halted == exited.by # "none"

\* the Operator New returns, before Run is called
InitProcess ==
    /\ queue = NewQueue
    /\ runPc = "waitForCacheSync"
    /\ waitResult = "none"
    /\ wpc = [w \in Workers |-> "notStarted"]
    /\ wkey = [w \in Workers |-> NoItem]
    /\ wtrace = [w \in Workers |-> <<>>]
    /\ werr = [w \in Workers |-> NilErr]
    /\ handled = NoHandle
    /\ streak = 0
    /\ notified = "none"
    /\ lateSyncs = 0
    /\ bootPc = "notStarted"
    /\ ticks = 0
    /\ calls = NoCalls

Init ==
    /\ InitProcess
    /\ hasSynced = {}
    /\ stopCh = FALSE
    /\ exited = Running
    /\ cm = NoConfigMap
    /\ resolved = Unresolved
    /\ tokens = BucketBurst
    /\ delay = NoDelay

\* the creation calls of a step that makes none
NoneMade == [ made |-> {}, ok |-> {} ]

\* the calls counted so far and the ones of one more poll tick
Counted(c, r) ==
    [ m \in Milestones |->
        [ made |-> c[m].made + (IF m \in r.made THEN 1 ELSE 0),
          ok |-> c[m].ok + (IF m \in r.ok THEN 1 ELSE 0) ] ]

\* glog.Fatalf: the process exits and its memory is gone; exited keeps what
\* ended it (by), where (at: the sync stage or the poll tick) and the
\* creation calls the ending step had made (r), calls keeps the count of the
\* creation calls made; the process's other variables go back to their
\* initial values
Fatalf(by, at, r) ==
    /\ exited' = [ by |-> by, at |-> at, made |-> r.made ]
    /\ calls' = Counted(calls, r)
    /\ queue' = NewQueue
    /\ runPc' = "waitForCacheSync"
    /\ waitResult' = "none"
    /\ wpc' = [w \in Workers |-> "notStarted"]
    /\ wkey' = [w \in Workers |-> NoItem]
    /\ wtrace' = [w \in Workers |-> <<>>]
    /\ werr' = [w \in Workers |-> NilErr]
    /\ handled' = NoHandle
    /\ streak' = 0
    /\ notified' = "none"
    /\ lateSyncs' = 0
    /\ bootPc' = "notStarted"
    /\ ticks' = 0
    /\ UNCHANGED << hasSynced, stopCh, configVars, limiterVars >>

(* --------------------------- environment ------------------------------- *)

\* the keys the handlers registered in New can hand to queue.Add, over every
\* informer, callback and payload
NotifiedKeys ==
    { eventHandler(kind, obj) : inf \in Informers, kind \in EventKinds, obj \in Payloads }

\* an informer delivers an add, update or delete notification: the callback
\* calls optr.queue.Add(key)
Notify(key) ==
    /\ ~Halted
    /\ queue' = Add(queue, key)
    /\ notified' = IF queue.shuttingDown THEN notified
                   ELSE IF notified = "none" THEN "one" ELSE "many"
    /\ UNCHANGED << hasSynced, stopCh, runPc, waitResult, wpc, wkey, wtrace,
                    werr, handled, streak, lateSyncs, bootPc, ticks, calls, exited, configVars, limiterVars >>

\* an informer's cache finishes its initial sync
InformerSynced(inf) ==
    /\ ~Halted
    /\ inf \notin hasSynced
    /\ hasSynced' = hasSynced \cup {inf}
    /\ UNCHANGED << queue, stopCh, runPc, waitResult, wpc, wkey, wtrace, werr,
                    handled, streak, notified, lateSyncs, bootPc, ticks, calls,
                    exited, configVars, limiterVars >>

\* the caller of Run closes stopCh
CloseStopCh ==
    /\ ~Halted
    /\ ~stopCh
    /\ stopCh' = TRUE
    /\ UNCHANGED << queue, hasSynced, runPc, waitResult, wpc, wkey, wtrace,
                    werr, handled, streak, notified, lateSyncs, bootPc, ticks, calls,
                    exited, configVars, limiterVars >>

\* the delaying queue adds an item whose delay has passed
DelayedAdd(item) ==
    /\ ~Halted
    /\ item \in queue.waiting
    /\ queue' = DelayPassed(queue, item)
    /\ UNCHANGED << hasSynced, stopCh, runPc, waitResult, wpc, wkey, wtrace,
                    werr, handled, streak, notified, lateSyncs, bootPc, ticks, calls,
                    exited, configVars, limiterVars >>

(* -------------------------------- Run ---------------------------------- *)

\* the results cache.WaitForCacheSync(stopCh, cacheSyncs...) can return now:
\* true once every given cache reports synced, false once stopCh is closed;
\* with both the case, the poll's select may take either
WaitForCacheSync(stop, cacheSyncs) ==
    { r \in BOOLEAN : (r /\ cacheSyncs \subseteq hasSynced) \/ (~r /\ stop) }

\* the cache-sync wait without the early return: Run goes on when it failed
RunWaitForCacheSyncNoReturn ==
    /\ ~Halted
    /\ runPc = "waitForCacheSync"
    /\ \E r \in WaitForCacheSync(stopCh, WaitedSynced) :
          /\ waitResult' = IF r THEN "true" ELSE "false"
          /\ runPc' = "startBootstrap"
          /\ queue' = queue
    /\ UNCHANGED << hasSynced, stopCh, wpc, wkey, wtrace, werr, handled,
                    streak, notified, lateSyncs, bootPc, ticks, calls, exited, configVars, limiterVars >>

\* Run: the cache-sync wait; on failure Run returns and the deferred
\* queue.ShutDown runs
RunWaitForCacheSync ==
    /\ ~Halted
    /\ runPc = "waitForCacheSync"
    /\ \E r \in WaitForCacheSync(stopCh, WaitedSynced) :
          /\ waitResult' = IF r THEN "true" ELSE "false"
          /\ IF r
             THEN /\ runPc' = "startBootstrap"
                  /\ queue' = queue
             ELSE /\ runPc' = "returned"
                  /\ queue' = ShutDown(queue)
    /\ UNCHANGED << hasSynced, stopCh, wpc, wkey, wtrace, werr, handled,
                    streak, notified, lateSyncs, bootPc, ticks, calls, exited, configVars, limiterVars >>

\* Run: go func() { wait.Poll(...) }()
RunStartBootstrap ==
    /\ ~Halted
    /\ runPc = "startBootstrap"
    /\ bootPc' = "polling"
    /\ runPc' = "startWorkers"
    /\ UNCHANGED << queue, hasSynced, stopCh, waitResult, wpc, wkey, wtrace,
                    werr, handled, streak, notified, lateSyncs, ticks, calls, exited, configVars, limiterVars >>

\* Run: for i := 0; i < workers; i++ { go wait.Until(optr.worker, time.Second, stopCh) }
RunStartWorkers ==
    /\ ~Halted
    /\ runPc = "startWorkers"
    /\ wpc' = [w \in Workers |-> "until"]
    /\ runPc' = "blocked"
    /\ UNCHANGED << queue, hasSynced, stopCh, waitResult, wkey, wtrace, werr,
                    handled, streak, notified, lateSyncs, bootPc, ticks, calls,
                    exited, configVars, limiterVars >>

\* Run: <-stopCh returns, Run returns and the deferred queue.ShutDown runs
RunStopped ==
    /\ ~Halted
    /\ runPc = "blocked"
    /\ stopCh
    /\ runPc' = "returned"
    /\ queue' = ShutDown(queue)
    /\ UNCHANGED << hasSynced, stopCh, waitResult, wpc, wkey, wtrace, werr,
                    handled, streak, notified, lateSyncs, bootPc, ticks, calls,
                    exited, configVars, limiterVars >>

(* ------------------------------ workers -------------------------------- *)

\* wait.Until: returns when stopCh is closed, otherwise calls optr.worker
WorkerUntil(w) ==
    /\ ~Halted
    /\ wpc[w] = "until"
    /\ wpc' = [wpc EXCEPT ![w] = IF stopCh THEN "exited" ELSE "get"]
    /\ UNCHANGED << queue, hasSynced, stopCh, runPc, waitResult, wkey, wtrace,
                    werr, handled, streak, notified, lateSyncs, bootPc, ticks, calls,
                    exited, configVars, limiterVars >>

\* processNextWorkItem: key, quit := optr.queue.Get(); on quit worker returns
\* to wait.Until
WorkerGet(w) ==
    /\ ~Halted
    /\ wpc[w] = "get"
    /\ GetReady(queue)
    /\ IF GetQuit(queue)
       THEN /\ wpc' = [wpc EXCEPT ![w] = "until"]
            /\ UNCHANGED << queue, wkey, wtrace, notified, lateSyncs >>
       ELSE /\ wpc' = [wpc EXCEPT ![w] = "sync"]
            /\ wkey' = [wkey EXCEPT ![w] = GetItem(queue)]
            /\ wtrace' = [wtrace EXCEPT ![w] = <<>>]
            /\ queue' = Get(queue)
            /\ notified' = "none"
            /\ lateSyncs' = IF queue.shuttingDown /\ lateSyncs < 2
                            THEN lateSyncs + 1
                            ELSE lateSyncs
    /\ UNCHANGED << hasSynced, stopCh, runPc, waitResult, werr, handled,
                    streak, bootPc, ticks, calls, exited, configVars, limiterVars >>

\* sync: the next stage runs and succeeds (ok) or fails
SyncStage(w, ok) ==
    /\ ~Halted
    /\ wpc[w] = "sync"
    /\ LET stage == Len(wtrace[w]) + 1
           outcome == StageOutcome(stage, ok)
       IN  IF outcome = "fatal"
           THEN Fatalf("sync", stage, NoneMade)
           ELSE /\ wtrace' = [wtrace EXCEPT ![w] =
                                Append(@, [stage |-> stage, ok |-> ok])]
                /\ wpc' = [wpc EXCEPT ![w] =
                             IF outcome = "return" THEN "handleErr" ELSE "sync"]
                /\ werr' = [werr EXCEPT ![w] =
                              IF outcome = "return" THEN StageErr(stage, ok) ELSE @]
                /\ UNCHANGED << queue, hasSynced, stopCh, runPc, waitResult, wkey,
                                handled, streak, notified, lateSyncs, bootPc,
                                ticks, calls, exited, configVars, limiterVars >>

\* processNextWorkItem: optr.handleErr(err, key)
WorkerHandleErr(w) ==
    /\ ~Halted
    /\ wpc[w] = "handleErr"
    /\ LET h == handleErr(queue, werr[w], wkey[w])
           retried == \E i \in 1 .. Len(h.calls) : h.calls[i] = "AddRateLimited"
       IN  /\ queue' = h.queue
           /\ handled' = [ worker |-> w,
                            err |-> werr[w],
                            numRequeues |-> NumRequeues(queue, wkey[w]),
                            nth |-> IF werr[w] = NilErr THEN 0 ELSE streak + 1,
                            calls |-> h.calls ]
           /\ streak' = IF werr[w] = NilErr \/ ~retried \/ streak + 1 > StreakCap
                        THEN 0
                        ELSE streak + 1
    /\ wpc' = [wpc EXCEPT ![w] = "done"]
    /\ UNCHANGED << hasSynced, stopCh, runPc, waitResult, wkey, wtrace, werr,
                    notified, lateSyncs, bootPc, ticks, calls, exited, configVars, limiterVars >>

\* processNextWorkItem: the deferred optr.queue.Done(key), then the next
\* iteration of worker's loop
WorkerDone(w) ==
    /\ ~Halted
    /\ wpc[w] = "done"
    /\ queue' = Done(queue, wkey[w])
    /\ wkey' = [wkey EXCEPT ![w] = NoItem]
    /\ wtrace' = [wtrace EXCEPT ![w] = <<>>]
    /\ werr' = [werr EXCEPT ![w] = NilErr]
    /\ handled' = IF handled.worker = w THEN NoHandle ELSE handled
    /\ wpc' = [wpc EXCEPT ![w] = "get"]
    /\ UNCHANGED << hasSynced, stopCh, runPc, waitResult, streak, notified,
                    lateSyncs, bootPc, ticks, calls, exited, configVars, limiterVars >>

(* ------------------------------ bootstrap ------------------------------ *)

\* the poll condition that goes on to syncMachineSets after syncCluster failed
PollConditionNoEarlyReturn(configOk, clusterOk, machineSetOk) ==
    IF ~configOk
    THEN [ result |-> "error", made |-> {}, ok |-> {} ]
    ELSE IF ~machineSetOk
         THEN [ result |-> "retry", made |-> Milestones,
                ok |-> IF clusterOk THEN { "cluster" } ELSE {} ]
         ELSE [ result |-> IF clusterOk THEN "done" ELSE "retry", made |-> Milestones,
                ok |-> IF clusterOk THEN Milestones ELSE { "machineSet" } ]

\* the poll condition that returns the error of syncCluster and of
\* syncMachineSets instead of (false, nil)
PollConditionHardCreate(configOk, clusterOk, machineSetOk) ==
    IF ~configOk
    THEN [ result |-> "error", made |-> {}, ok |-> {} ]
    ELSE IF ~clusterOk
         THEN [ result |-> "error", made |-> { "cluster" }, ok |-> {} ]
         ELSE IF ~machineSetOk
              THEN [ result |-> "error", made |-> Milestones, ok |-> { "cluster" } ]
              ELSE [ result |-> "done", made |-> Milestones, ok |-> Milestones ]

\* the poll condition that returns (true, nil) after syncCluster failed
PollConditionDoneOnFailure(configOk, clusterOk, machineSetOk) ==
    IF ~configOk
    THEN [ result |-> "error", made |-> {}, ok |-> {} ]
    ELSE IF ~clusterOk
         THEN [ result |-> "done", made |-> { "cluster" }, ok |-> {} ]
         ELSE IF ~machineSetOk
              THEN [ result |-> "retry", made |-> Milestones, ok |-> { "cluster" } ]
              ELSE [ result |-> "done", made |-> Milestones, ok |-> Milestones ]

\* one call of the poll condition: what it returns, "error" (getOperatorConfig
\* or updateImageDetails failed: configOk is false), "retry" (false, nil) or
\* "done" (true, nil), the creation calls it made and the ones that succeeded
PollCondition(configOk, clusterOk, machineSetOk) ==
    IF ~configOk
    THEN [ result |-> "error", made |-> {}, ok |-> {} ]
    ELSE IF ~clusterOk
         THEN [ result |-> "retry", made |-> { "cluster" }, ok |-> {} ]
         ELSE IF ~machineSetOk
              THEN [ result |-> "retry", made |-> Milestones, ok |-> { "cluster" } ]
              ELSE [ result |-> "done", made |-> Milestones, ok |-> Milestones ]

\* wait.Poll's channel: the ticker sends a tick per machineRolloutPollInterval
\* until machineRolloutTimeout closes the channel; t ticks were received
PollOpen(t) == t < MaxPollTicks

\* one iteration of wait.Poll: a tick is received, or the channel is found
\* closed, and the condition is called; its error, or the channel being
\* closed when it returned (false, nil), makes wait.Poll return an error and
\* the goroutine call glog.Fatalf.  Nothing here reads stopCh.
BootstrapTick(configOk, clusterOk, machineSetOk) ==
    /\ ~Halted
    /\ bootPc = "polling"
    /\ LET r == PollCondition(configOk, clusterOk, machineSetOk)
       IN  CASE r.result = "error" -> Fatalf("pollError", ticks + 1, r)
             [] r.result = "retry" /\ ~PollOpen(ticks) ->
                  Fatalf("pollTimeout", ticks + 1, r)
             [] OTHER ->
                  /\ ticks' = ticks + 1
                  /\ calls' = Counted(calls, r)
                  /\ bootPc' = IF r.result = "done" THEN "succeeded" ELSE "polling"
                  /\ UNCHANGED << queue, hasSynced, stopCh, runPc, waitResult, wpc,
                                  wkey, wtrace, werr, handled, streak, notified,
                                  lateSyncs, exited, configVars, limiterVars >>

(* -------------------------------- Next --------------------------------- *)

Next ==
    \/ \E key \in NotifiedKeys : Notify(key)
    \/ \E inf \in ListerSynced : InformerSynced(inf)
    \/ CloseStopCh
    \/ \E item \in queue.waiting : DelayedAdd(item)
    \/ RunWaitForCacheSync
    \/ RunStartBootstrap
    \/ RunStartWorkers
    \/ RunStopped
    \/ \E w \in Workers : WorkerUntil(w)
    \/ \E w \in Workers : WorkerGet(w)
    \/ \E w \in Workers, ok \in BOOLEAN : SyncStage(w, ok)
    \/ \E w \in Workers : WorkerHandleErr(w)
    \/ \E w \in Workers : WorkerDone(w)
    \/ \E configOk \in BOOLEAN, clusterOk \in BOOLEAN, machineSetOk \in BOOLEAN :
          BootstrapTick(configOk, clusterOk, machineSetOk)

Spec == Init /\ [][Next]_vars

\* the steps of the goroutine that runs wait.Poll
BootstrapStep ==
    \E configOk \in BOOLEAN, clusterOk \in BOOLEAN, machineSetOk \in BOOLEAN :
       BootstrapTick(configOk, clusterOk, machineSetOk)

\* the steps of one wait.Until(optr.worker, ...) goroutine
WorkerStep(w) ==
    \/ WorkerUntil(w)
    \/ WorkerGet(w)
    \/ \E ok \in BOOLEAN : SyncStage(w, ok)
    \/ WorkerHandleErr(w)
    \/ WorkerDone(w)

\* the steps of the goroutine that runs Run
RunStep ==
    \/ RunWaitForCacheSync
    \/ RunStartBootstrap
    \/ RunStartWorkers
    \/ RunStopped

\* the Go scheduler runs every goroutine that can take a step (Run's and the
\* workers'), and every call a sync stage makes returns
LiveSpec ==
    /\ Spec
    /\ WF_vars(RunStep)
    /\ \A w \in Workers : WF_vars(WorkerStep(w))

(* ------------------- the functions followed on their own --------------- *)

\* the variables of the operator's goroutines and their environment
operatorVars ==
    << queue, hasSynced, stopCh, runPc, waitResult, wpc, wkey, wtrace, werr,
       handled, streak, notified, lateSyncs, bootPc, ticks, calls, exited >>

\* getOperatorConfig has fetched one of the config maps
ConfigInit ==
    /\ InitProcess
    /\ hasSynced = {}
    /\ stopCh = FALSE
    /\ exited = Running
    /\ tokens = BucketBurst
    /\ delay = NoDelay
    /\ cm \in ClusterConfigs
    /\ resolved = Unresolved

\* getOperatorConfig: return optr.mcFromClusterConfig(clusterConfig)
ResolveConfig ==
    /\ ~resolved.done
    /\ resolved' = [ done |-> TRUE ] @@ mcFromClusterConfig(cm)
    /\ UNCHANGED << operatorVars, cm, limiterVars >>

ConfigNext == ResolveConfig

ConfigSpec == ConfigInit /\ [][ConfigNext]_vars

\* the end of one processNextWorkItem of the key, whose sync returned err:
\* handleErr, with the delay its AddRateLimited computes and the token that
\* takes from the bucket (the runs of the key follow one another, see C5)
LimiterHandleErr(err) ==
    /\ tokens > 0 - BucketDebt
    /\ LET h == handleErr(queue, err, workQueueKey)
           retried == \E i \in 1 .. Len(h.calls) : h.calls[i] = "AddRateLimited"
       IN  /\ queue' = h.queue
           /\ handled' = [ worker |-> 1,
                            err |-> err,
                            numRequeues |-> NumRequeues(queue, workQueueKey),
                            nth |-> IF err = NilErr THEN 0 ELSE streak + 1,
                            calls |-> h.calls ]
           /\ streak' = IF err = NilErr \/ ~retried THEN 0 ELSE streak + 1
           /\ delay' = IF retried
                        THEN When(NumRequeues(queue, workQueueKey), tokens)
                        ELSE delay
           /\ tokens' = IF retried THEN tokens - 1 ELSE tokens
    /\ UNCHANGED << hasSynced, stopCh, runPc, waitResult, wpc, wkey, wtrace,
                    werr, notified, lateSyncs, bootPc, ticks, calls, exited,
                    configVars >>

\* TokenInterval passes: the bucket gains a token, up to its burst
BucketRefill ==
    /\ tokens < BucketBurst
    /\ tokens' = tokens + 1
    /\ UNCHANGED << operatorVars, configVars, delay >>

\* the errors sync returns to processNextWorkItem: nil, stage 1's, stage 6's
ReturnedErrs == { NilErr } \cup (Stages \ FatalStages)

BackoffNext ==
    \/ \E err \in ReturnedErrs : LimiterHandleErr(err)
    \/ BucketRefill

BackoffSpec == Init /\ [][BackoffNext]_vars

(* ------------------------------ properties ----------------------------- *)

\* worker w's sync has run a stage that failed
StageFailed(w) == wtrace[w] # <<>> /\ ~wtrace[w][Len(wtrace[w])].ok

\* C1: a failure of any sync stage never halts the process: the failing
\* stage's error reaches handleErr, and below maxRetries requeues the key is
\* re-enqueued with AddRateLimited.
C1_StageFailureIsRetried ==
    /\ exited.by # "sync"
    /\ \A w \in Workers :
          StageFailed(w) =>
             /\ wpc[w] \in { "handleErr", "done" }
             /\ werr[w] = Len(wtrace[w])
             /\ (wpc[w] = "done" /\ handled.worker = w) =>
                   /\ handled.err = werr[w]
                   /\ handled.numRequeues < maxRetries =>
                         handled.calls = << "AddRateLimited" >>

\* C2 as stated: on the 15th consecutive failed sync handleErr drops the key
\* (no AddRateLimited, one report, Forget).
C2_DroppedOnFifteenth ==
    handled.nth = maxRetries => handled.calls = << "HandleError", "Forget" >>

\* C2 amended: each of the first 15 consecutive failed syncs is retried with
\* AddRateLimited; the 16th is dropped: no AddRateLimited, the error reported
\* exactly once, Forget called, the requeue count back to zero.
C2_DroppedOnSixteenth ==
    /\ handled.nth <= maxRetries + 1
    /\ handled.nth \in 1 .. maxRetries => handled.calls = << "AddRateLimited" >>
    /\ handled.nth = maxRetries + 1 =>
          /\ handled.calls = << "HandleError", "Forget" >>
          /\ NumRequeues(queue, wkey[handled.worker]) = 0

C2_Witness ==
    /\ handled.nth = maxRetries + 1
    /\ handled.numRequeues = maxRetries

\* C3: handleErr decides by exactly three cases: nil error, Forget only;
\* error below maxRetries requeues, AddRateLimited only; error at maxRetries
\* requeues or more, the error reported and Forget, no AddRateLimited; the
\* worker then goes on to Done.
C3_HandleErrCases ==
    handled.worker # 0 =>
       /\ handled.err = NilErr => handled.calls = << "Forget" >>
       /\ (handled.err # NilErr /\ handled.numRequeues < maxRetries) =>
             handled.calls = << "AddRateLimited" >>
       /\ (handled.err # NilErr /\ handled.numRequeues >= maxRetries) =>
             handled.calls = << "HandleError", "Forget" >>
       /\ wpc[handled.worker] = "done"

C3_Witness ==
    /\ handled.err # NilErr
    /\ handled.numRequeues >= maxRetries
    /\ handled.calls = << "HandleError", "Forget" >>

\* C4: the stages of a sync run in order 1..6, each after the ones before it
\* succeeded; a failing stage is the last one run and sync returns its error
\* to processNextWorkItem.
C4_FirstFailureReturned ==
    /\ \A w \in Workers :
          /\ Len(wtrace[w]) <= 6
          /\ \A i \in 1 .. Len(wtrace[w]) :
                /\ wtrace[w][i].stage = i
                /\ i < Len(wtrace[w]) => wtrace[w][i].ok
          /\ StageFailed(w) => werr[w] = wtrace[w][Len(wtrace[w])].stage
    /\ exited.by = "sync" => exited.at \notin Stages

\* C5: at most one worker holds the key between Get and Done.
C5_MutualExclusion ==
    \A w1 \in Workers, w2 \in Workers :
       (w1 # w2 /\ wkey[w1] # NoItem /\ wkey[w2] # NoItem) => wkey[w1] # wkey[w2]

\* a notification arrived while one worker runs sync and another waits in Get
C5_Witness ==
    \E w1 \in Workers, w2 \in Workers :
       /\ wpc[w1] = "sync"
       /\ wpc[w2] = "get"
       /\ wkey[w1] \in queue.dirty
       /\ notified # "none"

\* C6: however many notifications arrive between two dequeues, the key is
\* pending at most once, and an item handed out by Get is not pending.
C6_Dedup ==
    /\ \A i \in 1 .. Len(queue.queue), j \in 1 .. Len(queue.queue) :
          i # j => queue.queue[i] # queue.queue[j]
    /\ \A i \in 1 .. Len(queue.queue) :
          /\ queue.queue[i] \in queue.dirty
          /\ queue.queue[i] \notin queue.processing

\* several notifications since the last Get, one pending item
C6_Witness ==
    /\ notified = "many"
    /\ queue.queue = << workQueueKey >>

\* Run has started the worker goroutines
WorkersStarted == \A w \in Workers : wpc[w] # "notStarted"

\* a notification was accepted by the queue and no Get has returned the key since
Unserved == notified # "none" /\ WorkersStarted /\ ~queue.shuttingDown

\* C7 as stated: while the queue is not shut down, every notification is
\* followed by a sync run that starts after it.
C7_NotificationLeadsToSync ==
    Unserved ~> ((notified = "none" /\ ~Halted) \/ queue.shuttingDown)

\* C7 amended: every notification is followed by a sync run that starts after
\* it, or by the queue's shutdown, or by the process halting in glog.Fatalf.
C7_NotificationLeadsToSyncOrExit ==
    Unserved ~> ((notified = "none" /\ ~Halted) \/ queue.shuttingDown \/ Halted)

\* a notification arrived during a sync that now ends: Done re-queues the key
C7_Witness ==
    \E w \in Workers :
       /\ wpc[w] = "done"
       /\ wkey[w] \in queue.dirty
       /\ notified # "none"
       /\ ~queue.shuttingDown

\* C8: no worker has called Get and the bootstrap poll has not started unless
\* every informer's cache has synced.
C8_StartedOnlyWhenAllSynced ==
    (bootPc # "notStarted" \/ \E w \in Workers : wpc[w] \in { "get", "sync", "handleErr", "done" })
       => hasSynced = ListerSynced

\* C9 as stated: once the stop signal has fired during the cache-sync wait,
\* the wait can only end with Run returning, the queue shut down and nothing
\* started.
C9_StopDuringWaitAborts ==
    [][ (runPc = "waitForCacheSync" /\ stopCh /\ runPc' # runPc) =>
            (runPc' = "returned" /\ queue'.shuttingDown /\ bootPc' = "notStarted") ]_vars

\* C9 amended: when the cache-sync wait fails (it can only after the stop
\* signal fired), Run aborts startup: no worker is started, the bootstrap loop
\* is not started, the queue is shut down and Run has returned.
C9_FailedWaitAborts ==
    waitResult = "false" =>
       /\ stopCh
       /\ runPc = "returned"
       /\ queue.shuttingDown
       /\ bootPc = "notStarted"
       /\ \A w \in Workers : wpc[w] = "notStarted"

C9_Witness ==
    /\ waitResult = "false"
    /\ runPc = "returned"
    /\ stopCh

\* C10 as stated: once the stop signal has fired no new sync run starts.
C10_NoSyncStartsAfterStop ==
    [][ stopCh => \A w \in Workers : (wpc[w] # "sync" => wpc'[w] # "sync") ]_vars

\* C10 amended: a worker's pull-loop ends only after the stop signal; after
\* queue.ShutDown at most one more sync run starts (for a key pending or
\* marked dirty at the shutdown), since notifications and retries then
\* enqueue nothing.
C10_OneSyncAfterShutDown ==
    /\ lateSyncs <= 1
    /\ lateSyncs > 0 => (stopCh /\ queue.shuttingDown)
    /\ \A w \in Workers : wpc[w] = "exited" => stopCh
    /\ (queue.shuttingDown /\ lateSyncs = 1) => queue.queue = <<>>

\* the one sync run started after the shutdown is in flight, a notification
\* arrives and is dropped
C10_Witness ==
    /\ lateSyncs = 1
    /\ \E w \in Workers : wpc[w] = "sync" /\ wkey[w] \notin queue.dirty

\* Run has returned, the queue is shut down and no worker's pull-loop runs
ShutDownComplete ==
    /\ runPc = "returned"
    /\ queue.shuttingDown
    /\ \A w \in Workers : wpc[w] \in { "notStarted", "exited" }

\* C11: after the stop signal fires, the queue is eventually shut down and
\* every worker's pull-loop eventually terminates, whatever the last sync
\* returned and however many notifications keep arriving.
C11_StopLeadsToShutDown ==
    stopCh ~> ShutDownComplete

\* C12: once a creation has succeeded in a poll tick, no later tick of the
\* same loop run calls that creation again.
C12_NoReattempt ==
    [][ \A m \in Milestones : calls[m].ok > 0 => calls'[m].made <= calls[m].made ]_vars

\* C13: after the stop signal has fired and Run has returned, the bootstrap
\* poll runs no further tick, makes no further creation call and does not
\* end the process.
C13_StopObservedByPoll ==
    [][ (stopCh /\ runPc = "returned" /\ bootPc = "polling") =>
            \/ exited'.by = "sync"
            \/ /\ ticks' = ticks
               /\ calls' = calls
               /\ exited'.by \notin { "pollError", "pollTimeout" } ]_vars

\* C14: in a loop run where syncMachineSets never failed, with M the number
\* of ticks in which syncCluster failed: syncMachineSets was called only in
\* ticks where syncCluster succeeded and at most once; while syncCluster has
\* not succeeded the loop is polling after M ticks; once it has, the loop has
\* ended successfully at tick M + 1 with exactly one syncMachineSets call.
C14_SucceedsAtTickAfterFailures ==
    LET M == calls["cluster"].made - calls["cluster"].ok
    IN  (bootPc # "notStarted" /\ calls["machineSet"].made = calls["machineSet"].ok) =>
           /\ calls["machineSet"].made = calls["cluster"].ok
           /\ calls["machineSet"].made <= 1
           /\ calls["cluster"].ok = 0 => (bootPc = "polling" /\ ticks = M)
           /\ calls["cluster"].ok > 0 =>
                 /\ bootPc = "succeeded"
                 /\ ticks = M + 1
                 /\ calls["machineSet"].made = 1

\* syncCluster failed in the first tick and succeeded in the second
C14_Witness ==
    /\ bootPc = "succeeded"
    /\ ticks = 2
    /\ calls["cluster"] = [ made |-> 2, ok |-> 1 ]
    /\ calls["machineSet"] = [ made |-> 1, ok |-> 1 ]

\* C15: while no creation has succeeded, every tick returned (false, nil) and
\* the poll goes on: it is polling after as many ticks as syncCluster calls,
\* and its next tick can run; the loop ends successfully only when both
\* creations succeeded; the timeout ends the process at the call of the
\* condition that follows the last tick fitting in the timeout, never later,
\* and with creations that never succeeded this is how the loop ends.
C15_NeverSucceedingEndsInTimeout ==
    /\ bootPc = "polling" => (ticks <= MaxPollTicks /\ ENABLED BootstrapStep)
    /\ (bootPc = "polling" /\ calls["cluster"].ok = 0) =>
          (calls["cluster"].made = ticks /\ calls["machineSet"].made = 0)
    /\ bootPc = "succeeded" => (calls["cluster"].ok >= 1 /\ calls["machineSet"].ok = 1)
    /\ exited.by = "pollTimeout" => exited.at = MaxPollTicks + 1
    /\ (exited.by = "pollTimeout" /\ calls["cluster"].ok = 0) =>
          calls["cluster"].made = MaxPollTicks + 1

\* syncCluster failed in every tick until the timeout ended the process
C15_Witness ==
    /\ exited.by = "pollTimeout"
    /\ calls["cluster"] = [ made |-> MaxPollTicks + 1, ok |-> 0 ]
    /\ calls["machineSet"].made = 0

\* C16: a tick in which config resolution fails makes no creation call and
\* ends the poll and the process at once, at whatever tick; a tick in which a
\* creation fails ends the process only as the timeout, at the call that
\* follows the last tick fitting in the timeout.
C16_ConfigErrorIsHard ==
    /\ exited.by = "pollError" =>
          /\ exited.made = {}
          /\ exited.at \in 1 .. MaxPollTicks + 1
          /\ calls["cluster"].made = exited.at - 1
    /\ exited.by = "pollTimeout" =>
          /\ "cluster" \in exited.made
          /\ exited.at = MaxPollTicks + 1

\* config resolution failed in the first tick, before the timeout
C16_Witness ==
    /\ exited.by = "pollError"
    /\ exited.at = 1
    /\ exited.at <= MaxPollTicks
    /\ calls = NoCalls

\* C17: every add, update and delete handler of every informer enqueues the
\* one key "namespace/name" whatever the payload; the queue's pending,
\* in-flight, dirty, delayed and rate-limited items are never another key,
\* and at most one copy of the key is pending.
C17_SingletonKey ==
    /\ NotifiedKeys = { workQueueKey }
    /\ workQueueKey = "openshift-machine-api/machine-api-operator"
    /\ Len(queue.queue) <= 1
    /\ \A i \in 1 .. Len(queue.queue) : queue.queue[i] = workQueueKey
    /\ (queue.dirty \cup queue.processing \cup queue.waiting \cup DOMAIN queue.failures)
          \subseteq { workQueueKey }
    /\ \A w \in Workers : wkey[w] \in { NoItem, workQueueKey }

\* the key is pending, delayed and in flight at once, after several notifications
C17_Witness ==
    /\ queue.queue = << workQueueKey >>
    /\ workQueueKey \in queue.waiting
    /\ notified = "many"
    /\ NumRequeues(queue, workQueueKey) > 0

\* C20: the key's requeue count is always within 0 .. maxRetries; when
\* handleErr has handled a successful sync or dropped the key the count is 0,
\* and when it has handled a failed sync below maxRetries the count is one
\* more than it was.
C20_RetryCounter ==
    /\ NumRequeues(queue, workQueueKey) \in 0 .. maxRetries
    /\ handled.worker # 0 =>
          LET now == NumRequeues(queue, wkey[handled.worker])
          IN  /\ handled.err = NilErr => now = 0
              /\ (handled.err # NilErr /\ handled.numRequeues >= maxRetries) => now = 0
              /\ (handled.err # NilErr /\ handled.numRequeues < maxRetries) =>
                    now = handled.numRequeues + 1

\* the failed sync that takes the count to maxRetries has been handled
C20_Witness ==
    /\ handled.err # NilErr
    /\ handled.numRequeues = maxRetries - 1
    /\ NumRequeues(queue, workQueueKey) = maxRetries

C19_ConfigResolution ==
    resolved.done =>
       /\ \/ (resolved.err # "" /\ resolved.config = << >>)
          \/ (resolved.err = "" /\ Len(resolved.config) = 1)
       /\ mcKey \notin DOMAIN cm.data =>
             (resolved.err = "mao-config doesn't exist" /\ resolved.config = << >>)
       /\ (mcKey \in DOMAIN cm.data /\ ~cm.data[mcKey].wellFormed) =>
             (resolved.err # "" /\ resolved.config = << >>)
       /\ (mcKey \in DOMAIN cm.data /\ cm.data[mcKey].wellFormed) =>
             /\ resolved.err = ""
             /\ Len(resolved.config) = 1
             /\ resolved.config[1].TargetNamespace =
                   IF cm.data[mcKey].TargetNamespace = ""
                   THEN namespace
                   ELSE cm.data[mcKey].TargetNamespace
             /\ resolved.config[1].Provider = cm.data[mcKey].Provider

\* a config with an empty TargetNamespace was resolved
C19_Witness ==
    /\ resolved.done
    /\ mcKey \in DOMAIN cm.data
    /\ cm.data[mcKey].wellFormed
    /\ cm.data[mcKey].TargetNamespace = ""
    /\ resolved.config[1].TargetNamespace = namespace

=============================================================================
